---- MODULE Spec2Model ----
(***************************************************************************)
(* Model of src/hungarian.c: the function hungarian(n, m, cost, match_out) *)
(* stepped through one loop body at a time, and its caller main().         *)
(*                                                                         *)
(* Numbers.  The C code computes in double.  A double is modelled by an    *)
(* exact number  inf * 1e18 + pad * 1e9 + val * 0.1 , written as the       *)
(* triple <<inf, pad, val>> of integer coefficients: 1e18 is the code's    *)
(* INF, 1e9 is its padding cost and 0.1 is the resolution of the costs of  *)
(* main().  Sums and differences are taken coefficient by coefficient and  *)
(* two numbers compare lexicographically, which is the order of the real   *)
(* numbers as long as the coefficients stay far below 1e9 (NumOK, part of  *)
(* TypeOK).  Rounding of double arithmetic is not modelled.                *)
(***************************************************************************)
EXTENDS Integers, Sequences, FiniteSets

(* ---- bounds of the model ---- *)
\* largest number of workers, and of jobs, of a generated call
MaxDim == 3
\* largest number of cells n * m of a generated cost matrix
MaxCells == 9
\* matrices of at most WideCells cells draw their costs from WideCosts
WideCells == 4
\* matrices of at most MidCells cells draw their costs from MidCosts
MidCells == 6

VARIABLES
  pc,         \* position in the program
  n, m,       \* arguments of hungarian
  cost,       \* argument: cost[i][j], i in 0..n-1, j in 0..m-1
  match_out,  \* argument: the caller's array of m ints
  N,          \* line 17
  a,          \* line 18: the padded matrix a[0..N][0..N]
  u, v,       \* lines 29-30: potentials
  p, way,     \* lines 31-32
  i,          \* line 34: outer loop counter
  minv, used, \* lines 36-37: scratch of one outer iteration
  j0,         \* line 40
  result,     \* line 69, and the value returned
  delta,      \* line 44: the last delta applied by the search loop
  lastj1,     \* line 45: the last j1 chosen by the search loop
  reads,      \* history: the cells <<i, j>> of cost read so far
  writes,     \* history: the indices of match_out written so far
  iters,      \* history: outer iterations completed
  steps,      \* history: search steps done in the current outer iteration
  walked,     \* history: jobs left behind by the augmentation walk of this iteration
  fresh,      \* history: the last search step marked a job that was unused
  built       \* history: the padded matrix was allocated and filled

vars == <<pc, n, m, cost, match_out, N, a, u, v, p, way, i, minv, used, j0,
          result, delta, lastj1, reads, writes, iters, steps, walked, fresh, built>>

(* ---- numbers ---- *)
Num(h, q, x) == <<h, q, x>>
Zero == Num(0, 0, 0)
\* #define INF 1e18
INF == Num(1, 0, 0)
\* the literal 1e9 of line 25
PAD == Num(0, 1, 0)
\* a cost given in tenths
Val(x) == Num(0, 0, x)
Add(x, y) == <<x[1] + y[1], x[2] + y[2], x[3] + y[3]>>
Sub(x, y) == <<x[1] - y[1], x[2] - y[2], x[3] - y[3]>>
Less(x, y) ==
  \/ x[1] < y[1]
  \/ x[1] = y[1] /\ x[2] < y[2]
  \/ x[1] = y[1] /\ x[2] = y[2] /\ x[3] < y[3]
Leq(x, y) == x = y \/ Less(x, y)
NumOK(x) == \A k \in 1..3 : x[k] \in -100000..100000

MAX(x, y) == IF x > y THEN x ELSE y
MIN(x, y) == IF x < y THEN x ELSE y

(* ---- the inputs of a generated call ---- *)
Dims == -1..MaxDim
SmallCosts == {Val(0), Val(1), Val(2)}
MidCosts == {Val(-1), Val(0), Val(1), Add(PAD, PAD)}
WideCosts == {Val(-2), Val(0), Val(1), Val(3), Add(PAD, Val(1)),
              Add(INF, INF), Add(INF, Add(INF, INF))}
Cells(nn, mm) == MAX(nn, 0) * MAX(mm, 0)
CostsFor(nn, mm) ==
  IF Cells(nn, mm) <= WideCells THEN WideCosts
  ELSE IF Cells(nn, mm) <= MidCells THEN MidCosts
  ELSE SmallCosts
Matrices(nn, mm) == [0..(nn - 1) -> [0..(mm - 1) -> CostsFor(nn, mm)]]

\* main(), lines 101-108: the data of the example, in tenths
MainData ==
  [r \in 0..2 |->
     [c \in 0..3 |->
        Val((<< <<90, 25, 71, 83>>, <<62, 48, 30, 79>>, <<50, 81, 15, 87>> >>)[r + 1][c + 1])]]

(* ---- state after construction: no call made yet ---- *)
Init ==
  /\ pc = "idle"
  /\ n = 0 /\ m = 0 /\ cost = <<>> /\ match_out = <<>>
  /\ N = 0 /\ a = <<>> /\ u = <<>> /\ v = <<>> /\ p = <<>> /\ way = <<>>
  /\ i = 0 /\ minv = <<>> /\ used = <<>> /\ j0 = 0
  /\ result = Zero /\ delta = Zero /\ lastj1 = 0
  /\ reads = {} /\ writes = {} /\ iters = 0 /\ steps = 0 /\ walked = {}
  /\ fresh = TRUE /\ built = FALSE

\* the caller's array before the call: m ints that are no result of this
\* call (MaxDim is no worker index of any generated call)
StaleMatch(mm) == [j \in 0..(mm - 1) |-> MaxDim]

Enter(nn, mm, c) ==
  /\ pc = "idle"
  /\ pc' = "entry"
  /\ n' = nn /\ m' = mm /\ cost' = c
  /\ match_out' = StaleMatch(mm)
  /\ UNCHANGED <<N, a, u, v, p, way, i, minv, used, j0, result, delta, lastj1,
                 reads, writes, iters, steps, walked, fresh, built>>

\* a caller's call hungarian(n, m, cost, match_out)
Call ==
  /\ pc = "idle"
  /\ \E nn \in Dims, mm \in Dims :
       /\ Cells(nn, mm) <= MaxCells
       /\ \E c \in Matrices(nn, mm) : Enter(nn, mm, c)

\* main(), lines 101-115
Main == Enter(3, 4, MainData)

(* ---- lines 17-32: the padded square and the zeroed arrays ---- *)
InRect(r, c) == r > 0 /\ c > 0 /\ r <= n /\ c <= m
Padded(r, c) == IF InRect(r, c) THEN cost[r - 1][c - 1] ELSE PAD

Build ==
  /\ pc = "entry"
  /\ pc' = "outer"
  /\ N' = MAX(n, m)
  /\ a' = [r \in 0..N' |-> [c \in 0..N' |-> Padded(r, c)]]
  /\ reads' = reads \cup {<<r - 1, c - 1>> : r \in {x \in 0..N' : x > 0 /\ x <= n},
                                             c \in {x \in 0..N' : x > 0 /\ x <= m}}
  /\ u' = [k \in 0..N' |-> Zero]
  /\ v' = [k \in 0..N' |-> Zero]
  /\ p' = [k \in 0..N' |-> 0]
  /\ way' = [k \in 0..N' |-> 0]
  /\ i' = 1
  /\ built' = TRUE
  /\ UNCHANGED <<n, m, cost, match_out, minv, used, j0, result, delta, lastj1,
                 writes, iters, steps, walked, fresh>>

(* ---- lines 34-40: the head of one outer iteration ---- *)
OuterBegin ==
  /\ pc = "outer"
  /\ i <= N
  /\ pc' = "search"
  /\ p' = [p EXCEPT ![0] = i]
  /\ minv' = [k \in 0..N |-> INF]
  /\ used' = [k \in 0..N |-> FALSE]
  /\ j0' = 0
  /\ steps' = 0
  /\ walked' = {}
  /\ UNCHANGED <<n, m, cost, match_out, N, a, u, v, way, i, result, delta, lastj1,
                 reads, writes, iters, fresh, built>>

(* ---- lines 41-56: one body of the search loop ---- *)
\* line 47: the reduced cost of the cell (i0, j)
Cur(i0, j) == Sub(Sub(a[i0][j], u[i0]), v[j])

\* line 48: the test that records a better slack for the unused job j
Improves(us, i0, j) == j >= 1 /\ ~us[j] /\ Less(Cur(i0, j), minv[j])

\* line 49, over j = 1..N in index order: the running minimum delta and its job j1
RECURSIVE ScanMin(_, _, _, _, _)
ScanMin(j, mv, us, d, j1) ==
  IF j > N THEN <<d, j1>>
  ELSE IF ~us[j] /\ Less(mv[j], d) THEN ScanMin(j + 1, mv, us, mv[j], j)
  ELSE ScanMin(j + 1, mv, us, d, j1)

\* a slip in line 52: the potentials u are not raised
RaiseU_Forgotten(j, uu, us, d) == uu

\* line 52, over j = 0..N in index order: u[p[j]] += delta for every used j
RECURSIVE RaiseU(_, _, _, _)
RaiseU(j, uu, us, d) ==
  IF j > N THEN uu
  ELSE IF us[j] THEN RaiseU(j + 1, [uu EXCEPT ![p[j]] = Add(uu[p[j]], d)], us, d)
  ELSE RaiseU(j + 1, uu, us, d)

\* a slip in line 52: v[j] += delta
LowerV_Adds(x, d) == Add(x, d)

\* line 52: v[j] -= delta for a used job
LowerV(x, d) == Sub(x, d)

\* line 56: the search loop goes on while the job reached is matched
SearchGoesOn(pp, j) == pp[j] # 0

SearchStep ==
  /\ pc = "search"
  /\ LET us == [used EXCEPT ![j0] = TRUE]
         i0 == p[j0]
         mv1 == [j \in 0..N |-> IF Improves(us, i0, j) THEN Cur(i0, j) ELSE minv[j]]
         sel == ScanMin(1, mv1, us, INF, 0)
         d == sel[1]
         j1 == sel[2]
     IN  /\ used' = us
         /\ way' = [j \in 0..N |-> IF Improves(us, i0, j) THEN j0 ELSE way[j]]
         /\ u' = RaiseU(0, u, us, d)
         /\ v' = [j \in 0..N |-> IF us[j] THEN LowerV(v[j], d) ELSE v[j]]
         /\ minv' = [j \in 0..N |-> IF us[j] THEN mv1[j] ELSE Sub(mv1[j], d)]
         /\ delta' = d
         /\ lastj1' = j1
         /\ j0' = j1
         /\ fresh' = ~used[j0]
         /\ steps' = steps + 1
         /\ pc' = IF SearchGoesOn(p, j1) THEN "search" ELSE "augment"
  /\ UNCHANGED <<n, m, cost, match_out, N, a, p, i, result, reads, writes, iters,
                 walked, built>>

(* ---- lines 59-67: one body of the augmentation walk, and the end of the
        outer iteration when the walk reaches job 0 ---- *)
\* line 60: the job the walk moves to
Pred(j) == way[j]

AugmentStep ==
  /\ pc = "augment"
  /\ LET j1 == Pred(j0)
     IN  /\ p' = [p EXCEPT ![j0] = p[j1]]
         /\ j0' = j1
         /\ walked' = walked \cup {j0}
         /\ IF j1 # 0
            THEN /\ pc' = "augment"
                 /\ UNCHANGED <<i, minv, used, iters>>
            ELSE /\ pc' = "outer"
                 /\ i' = i + 1
                 /\ minv' = <<>>
                 /\ used' = <<>>
                 /\ iters' = iters + 1
  /\ UNCHANGED <<n, m, cost, match_out, N, a, u, v, way, result, delta, lastj1,
                 reads, writes, steps, fresh, built>>

(* ---- lines 69-84: the result, the caller's array, the cleanup, the return ---- *)
\* a slip in line 71: p[j] < n
Counted_Strict(j) == p[j] > 0 /\ p[j] < n /\ j <= m

\* a slip in line 77: the bound is the padded size N, not n
Assigned_AgainstN(j) == p[j] > 0 /\ p[j] <= N

\* line 71
Counted(j) == p[j] > 0 /\ p[j] <= n /\ j <= m
\* line 77
Assigned(j) == p[j] > 0 /\ p[j] <= n

\* lines 70-73
RECURSIVE SumFrom(_)
SumFrom(j) ==
  IF j > N THEN Zero
  ELSE IF Counted(j) THEN Add(cost[p[j] - 1][j - 1], SumFrom(j + 1))
  ELSE SumFrom(j + 1)

\* a slip in line 75: match_out is not cleared to -1
MatchOut_NotCleared ==
  [j \in 0..(m - 1) |->
     IF p[j + 1] > 0 /\ p[j + 1] <= n THEN p[j + 1] - 1 ELSE match_out[j]]

\* a slip in line 76: the loop stops at j < m and never assigns the last job
MatchOut_SkipsLast ==
  [j \in 0..(m - 1) |->
     IF j + 1 < m /\ p[j + 1] > 0 /\ p[j + 1] <= n THEN p[j + 1] - 1 ELSE -1]

\* lines 75-79
MatchOut == [j \in 0..(m - 1) |-> IF Assigned(j + 1) THEN p[j + 1] - 1 ELSE -1]

Extract ==
  /\ pc = "outer"
  /\ i > N
  /\ pc' = "done"
  /\ result' = SumFrom(1)
  /\ reads' = reads \cup {<<p[j] - 1, j - 1>> : j \in {k \in 1..N : Counted(k)}}
  /\ match_out' = MatchOut
  /\ writes' = writes \cup (0..(m - 1))
  /\ a' = <<>> /\ u' = <<>> /\ v' = <<>> /\ p' = <<>> /\ way' = <<>>
  /\ UNCHANGED <<n, m, cost, N, i, minv, used, j0, delta, lastj1, iters, steps,
                 walked, fresh, built>>

Next == Call \/ Main \/ Build \/ OuterBegin \/ SearchStep \/ AugmentStep \/ Extract

Spec == Init /\ [][Next]_vars

(* ---- soundness of the number representation ---- *)
TypeOK ==
  /\ pc \in {"idle", "entry", "outer", "search", "augment", "done"}
  /\ NumOK(result) /\ NumOK(delta)
  /\ pc \in {"outer", "search", "augment"} =>
       \A k \in 0..N : NumOK(u[k]) /\ NumOK(v[k])
  /\ pc = "search" => \A k \in 0..N : NumOK(minv[k])

(* ---- what the claims speak of ---- *)
\* the costs of all cells are below INF in absolute value (no 1e18 part)
BelowINF == \A r \in 0..(n - 1), c \in 0..(m - 1) : cost[r][c][1] = 0
NonNegative == \A r \in 0..(n - 1), c \in 0..(m - 1) : Leq(Zero, cost[r][c])

RECURSIVE SumOver(_, _)
\* the sum of cost[w][j] over a set of pairs <<w, j>>
SumOver(pairs, acc) ==
  IF pairs = {} THEN acc
  ELSE LET pr == CHOOSE x \in pairs : TRUE
       IN  SumOver(pairs \ {pr}, Add(acc, cost[pr[1]][pr[2]]))

\* the one-to-one pairings of exactly min(n, m) worker-job pairs
Pairings ==
  IF n <= m
  THEN {{<<w, f[w]>> : w \in 0..(n - 1)} :
          f \in {g \in [0..(n - 1) -> 0..(m - 1)] :
                   \A x, y \in 0..(n - 1) : x # y => g[x] # g[y]}}
  ELSE {{<<f[j], j>> : j \in 0..(m - 1)} :
          f \in {g \in [0..(m - 1) -> 0..(n - 1)] :
                   \A x, y \in 0..(m - 1) : x # y => g[x] # g[y]}}

IsMinimum(x) ==
  /\ \E pr \in Pairings : SumOver(pr, Zero) = x
  /\ \A pr \in Pairings : Leq(x, SumOver(pr, Zero))

Returned == pc = "done"

\* C1: for n >= 0, m >= 0 the total returned is the minimum, over the one-to-one
\* pairings of exactly min(n, m) worker-job pairs, of the sum of their costs.
C1_TotalIsMinimum == (Returned /\ n >= 0 /\ m >= 0) => IsMinimum(result)

\* the same for matrices whose costs are all below INF = 1e18
C1_TotalIsMinimumBelowINF ==
  (Returned /\ n >= 0 /\ m >= 0 /\ BelowINF) => IsMinimum(result)

Unassigned(j) == match_out[j] = -1
AssignedJobs == {j \in 0..(m - 1) : ~Unassigned(j)}

\* C2: after the return every entry of match_out is -1 or a worker index in
\* [0, n), and no worker index is in two entries.
C2_MatchIsMatching ==
  Returned =>
    /\ \A j \in 0..(m - 1) : Unassigned(j) \/ match_out[j] \in 0..(n - 1)
    /\ \A j, k \in AssignedJobs : j # k => match_out[j] # match_out[k]

\* C3: the smaller side is fully matched: exactly min(n, m) entries of match_out
\* differ from -1; when n < m every worker is in exactly one entry and m - n
\* jobs are unassigned.
C3_SmallerSideMatched ==
  (Returned /\ n >= 0 /\ m >= 0) =>
    /\ Cardinality(AssignedJobs) = MIN(n, m)
    /\ n >= m => AssignedJobs = 0..(m - 1)
    /\ n < m =>
         /\ \A w \in 0..(n - 1) : Cardinality({j \in 0..(m - 1) : match_out[j] = w}) = 1
         /\ Cardinality({j \in 0..(m - 1) : Unassigned(j)}) = m - n

\* C4: the total returned is the sum of cost[match_out[j]][j] over the jobs j
\* with match_out[j] # -1, all of them cells of the n x m rectangle.
C4_TotalMatchesAssignment ==
  Returned =>
    /\ \A j \in AssignedJobs : match_out[j] \in 0..(n - 1)
    /\ result = SumOver({<<match_out[j], j>> : j \in AssignedJobs}, Zero)

\* the potentials are dual feasible on the rows rs of the padded square
Feasible(rs) == \A r \in rs, c \in 1..N : Leq(Add(u[r], v[c]), a[r][c])

\* a potential update of the search loop has just completed, or an outer
\* iteration has just ended
Observed ==
  \/ pc \in {"search", "augment"} /\ steps >= 1
  \/ pc = "outer" /\ iters >= 1

AllIterationsDone == pc = "outer" /\ i > N

\* C9: once all N outer iterations are complete, p is a bijection of the jobs
\* 1..N onto the workers 1..N and every matched edge is tight.
C9_ComplementarySlackness ==
  AllIterationsDone =>
    /\ \A j \in 1..N : p[j] \in 1..N
    /\ \A j, k \in 1..N : j # k => p[j] # p[k]
    /\ \A j \in 1..N : Add(u[p[j]], v[j]) = a[p[j]][j]

\* the rows of the padded square inserted so far: the row of the running outer
\* iteration counts once its first potential update is done
Inserted == IF pc = "outer" THEN 1..iters ELSE 1..i

C10_SearchTerminates ==
  (n >= 0 /\ m >= 0) =>
    /\ (pc \in {"search", "augment"} /\ steps >= 1) =>
         /\ fresh
         /\ lastj1 # 0 /\ ~used[lastj1] /\ Less(delta, INF)
         /\ steps <= i /\ i <= N
    /\ pc = "search" => steps < i
    /\ pc = "augment" => (j0 # 0 /\ j0 \notin walked /\ Cardinality(walked) < steps)
    /\ Returned => iters = N
    /\ pc \notin {"idle", "done"} => ENABLED Next

\* the same, but for the last conjunct, for matrices whose costs are all below INF
C10_SearchTerminatesBelowINF ==
  (BelowINF /\ n >= 0 /\ m >= 0) =>
    /\ (pc \in {"search", "augment"} /\ steps >= 1) =>
         /\ fresh
         /\ lastj1 # 0 /\ ~used[lastj1] /\ Less(delta, INF)
         /\ steps <= i /\ i <= N
    /\ pc = "search" => steps < i
    /\ pc = "augment" => (j0 # 0 /\ j0 \notin walked /\ Cardinality(walked) < steps)
    /\ Returned => iters = N

IsMain == n = 3 /\ m = 4 /\ cost = MainData

\* C6: on the example of main() the total is 9.3, job 1 has worker 0, job 2 has
\* worker 2, job 3 is unassigned, and the total is the brute-force minimum.
C6_ExampleAsStated ==
  (Returned /\ IsMain) =>
    /\ result = Val(93)
    /\ match_out[1] = 0 /\ match_out[2] = 2 /\ match_out[3] = -1
    /\ IsMinimum(result)

\* C6 as amended: the total is 10.2 = 6.2 + 2.5 + 1.5, with job 0 on worker 1,
\* job 1 on worker 0, job 2 on worker 2 and job 3 unassigned, and 10.2 is the
\* brute-force minimum.
C6_ExampleAmended ==
  (Returned /\ IsMain) =>
    /\ result = Val(102)
    /\ match_out = [j \in 0..3 |-> <<1, 0, 2, -1>>[j + 1]]
    /\ IsMinimum(result)

\* C7: a call with n < 0 or m < 0 is rejected before the algorithm: no padded
\* matrix is built, no outer iteration runs, no result is returned.
C7_InvalidDimensionRejected ==
  (pc # "idle" /\ (n < 0 \/ m < 0)) =>
    /\ ~built
    /\ iters = 0
    /\ pc \notin {"outer", "search", "augment", "done"}

(* ---- the calls without a cost cell, run to completion ---- *)
EmptyCall ==
  /\ pc = "idle"
  /\ \E nn \in Dims, mm \in Dims :
       /\ Cells(nn, mm) = 0
       /\ \E c \in Matrices(nn, mm) : Enter(nn, mm, c)

NextEmpty == EmptyCall \/ Build \/ OuterBegin \/ SearchStep \/ AugmentStep \/ Extract

\* hungarian has no suspension point: a call that can take a step takes it
EmptySpec == Init /\ [][NextEmpty]_vars /\ WF_vars(NextEmpty)

Degenerate == pc # "idle" /\ ((n = 0 /\ m >= 0) \/ (m = 0 /\ n >= 0))

DegenerateSafe ==
  Degenerate =>
    /\ reads \subseteq (0..(n - 1)) \X (0..(m - 1))
    /\ Returned =>
         /\ result = Zero
         /\ n = 0 => (writes = 0..(m - 1) /\ \A j \in 0..(m - 1) : match_out[j] = -1)
         /\ m = 0 => writes = {}

\* C5: with n = 0 the call returns 0 and sets all m entries of match_out to -1;
\* with m = 0 it returns 0 and writes no entry; it reads no cell of cost
\* outside [0,n) x [0,m); and it terminates.
C5_DegenerateResult == [](DegenerateSafe) /\ (Degenerate ~> Returned)

(* ---- reachable cases of the claims ---- *)
AboveSomewhere(x) == \E r \in 0..(n - 1), c \in 0..(m - 1) : Less(x, cost[r][c])

\* a 2 x 3 call has returned two assigned jobs and one unassigned job
C2_Witness ==
  Returned /\ n = 2 /\ m = 3 /\ Cardinality(AssignedJobs) = 2 /\ \E j \in 0..2 : Unassigned(j)

\* a call with fewer workers than jobs and a real cost above the padding cost
\* has returned with every worker assigned
C3_Witness ==
  /\ Returned /\ n >= 1 /\ n < m /\ AboveSomewhere(PAD)
  /\ Cardinality(AssignedJobs) = n

\* a call with more workers than jobs has returned a total that is not zero
C4_Witness ==
  Returned /\ m >= 2 /\ n > m /\ Cardinality(AssignedJobs) = m /\ result # Zero

\* a call with no worker and two jobs or more has returned
C5_Witness ==
  Returned /\ n = 0 /\ m >= 2 /\ result = Zero /\ \A j \in 0..(m - 1) : match_out[j] = -1

\* main()'s call has returned 10.2
C6_Witness == Returned /\ IsMain /\ result = Val(102) /\ match_out[0] = 1

====
